---- MODULE Spec2Model ----
(***************************************************************************)
(* proxy-relay: the graceful lifecycle of the HTTP and SOCKS listeners     *)
(* (proxy/http.go, proxy/socks.go) and the reload coordinator (main.go).   *)
(*                                                                         *)
(* Goroutines are processes with a program counter; an unbuffered channel  *)
(* operation is one joint step of its sender and its receiver.  Time is    *)
(* abstract: a timer (time.After) fires only in a state where no step of   *)
(* the program itself is enabled, so the program's own steps take no time  *)
(* while clients, peers, the file system and the timers act at any moment. *)
(***************************************************************************)
EXTENDS Integers, Sequences, FiniteSets, TLC

\* ------------------------------------------------------------------ bounds
MaxListeners == 6      \* listener objects (NewHTTP / NewSOCKS) ever created
MaxConns == 2          \* client connections ever accepted
MaxCloseCalls == 2     \* Close() calls a test goroutine makes on one listener
MaxEdits == 1          \* edits of the configuration file
MaxClients == 1        \* client connections ever accepted while the relay runs
MaxBurst == 3          \* file-change events the watcher is sent when it runs alone
MaxData == 1           \* chunks of data a destination sends through one tunnel
Second == 2            \* time units in the second of the watcher's timer
MaxErrs == 10          \* temporary accept errors in a row on one listener

\* ------------------------------------------------------- program constants
FirstDelay == 5        \* 5 * time.Millisecond, in milliseconds
MaxDelay == 1000       \* max := 1 * time.Second, in milliseconds

Listeners == 1..MaxListeners
Conns == 1..MaxConns
\* The calling contexts: the handler goroutine of connection c is context c,
\* then the main goroutine and the watcher goroutine.
Main == MaxConns + 1
Watch == MaxConns + 2
Procs == 1..(MaxConns + 2)

VARIABLES
  \* --- a listener object (proxy.HTTP / proxy.SOCKS)
  lkind,     \* "none" (not created), "http", "socks"
  lport,     \* the port of its address
  lproxy,    \* srv.proxy: the upstream it was created with
  ldest,     \* SOCKS.connectTo
  lbound,    \* its net.Listener is open (the port is bound)
  linit,     \* srv.listener (and srv.sig) have been assigned
  lclosed,   \* SOCKS.closed
  spc,       \* the goroutine running ListenAndServe -> serveHTTP -> run / serveSOCKS
  tpc,       \* run's connection-tracking goroutine
  conns,     \* its map connections
  tdone,     \* its variable done is non-nil
  epc,       \* run's goroutine that waits on c (srv.sig)
  timer,     \* run's time.After(timeout): "off", "armed", "fired", "used" (received from)
  ka,        \* server keep-alives enabled
  \* --- a client connection
  cl,        \* the listener that accepted it (0: none yet)
  cst,       \* its http.ConnState, or "tunnel" on a SOCKS listener
  cb,        \* the ConnState callback blocked on add <- conn / remove <- conn
  copen,     \* the local socket is open
  creq,      \* the request its handler is serving
  cwho,      \* who closed the socket: "none", "peer", "server", "handler", "kill"
  tun,       \* the connectSOCKS call serving it (a record, see Tun0)
  \* --- a Close() call in progress in a context
  callpc, calltgt,
  \* --- relay (main.go)
  rpc,       \* reload() in a context: "idle", "load", "close", "open", "wait", "pub", "done"
  rsnap,     \* the slice rl.running the Close loop ranges over
  ridx,      \* its position in that slice
  rsrvs,     \* its local srvs
  ri,        \* the port i of its loop over the HTTP ports
  rmap,      \* the map rl.cfg.ReverseMap its second loop ranges over
  rrem,      \* the ports of that map not yet visited
  rcur,      \* the listener whose bind outcome it waits for
  rres,      \* what reload() returned: "none", "ok", "loaderr", "listenerr"
  cfg,       \* rl.cfg (Nil: nil)
  running,   \* rl.running
  file,      \* the configuration file on disk
  wpc,       \* the watcher goroutine: "off", "select", "reload"
  alive,     \* the process has neither exited (log.Fatalln) nor crashed (panic)
  wt,        \* its timer channel t: "off", "armed", "fired"
  wclock,    \* time units left on t, and time units since the last event was received
  evq,       \* file-change events not yet received from w.Event
  nextL,     \* the next unused listener object
  edits,     \* edits of the file so far
  \* --- history
  ncalls,    \* Close() calls started on a listener
  nrets,     \* Close() calls returned on a listener
  zeroAtClose, \* no connection of the listener was open when Close() closed its socket
  nilread,   \* a handler has dereferenced a nil rl.cfg
  rbefore,   \* the listeners that were accepting when the reload of a context began
  clate,     \* the request of a connection was read after a Close() of its listener began
  \* --- the accept loop of serveSOCKS
  tempDelay, \* its variable tempDelay, in milliseconds
  nerr,      \* history: temporary accept errors since the last successful accept
  \* --- one request in the handler of serveHTTP
  hreq       \* the request (a record, see RequestArrives) and the branch it took

lvars == <<lkind, lport, lproxy, ldest, lbound, linit, lclosed, spc, tpc, conns, tdone, epc, timer, ka>>
cvars == <<cl, cst, cb, copen, creq, cwho>>
callvars == <<callpc, calltgt>>
rvars == <<rpc, rsnap, ridx, rsrvs, ri, rmap, rrem, rcur, rres, cfg, running, file, wpc, alive, wt, wclock, evq, nextL, edits>>
hvars == <<ncalls, nrets, zeroAtClose, nilread, rbefore>>
evars == <<clate, tempDelay, nerr, hreq>>
vars == <<lvars, cvars, callvars, rvars, hvars, tun, evars>>

Nil == [nil |-> TRUE]

\* No request is in the handler.
NoRequest == [at |-> "none"]

\* No connectSOCKS call: its position, whether its upstream connection conn is
\* open, whether the local peer and the destination have closed their side, its
\* results connected and err, its two copies (down: io.Copy(c, conn), upstream to
\* local; up: io.Copy(conn, c), local to upstream), what it and its handler have
\* written to the local connection, and how much it has sent to the upstream.
Tun0 == [pc |-> "none", conn |-> "none", peer |-> "open", dest |-> "open",
         connected |-> FALSE, err |-> "none", up |-> "idle", down |-> "idle", out |-> <<>>,
         sent |-> 0]

\* ------------------------------------------------- config.New (config.go)
\* A string is a sequence of one-character strings.
Digits == <<"0", "1", "2", "3", "4", "5", "6", "7", "8", "9">>
IsDigit(ch) == \E i \in 1..10 : Digits[i] = ch
DigitVal(ch) == (CHOOSE i \in 1..10 : Digits[i] = ch) - 1

\* The index of the first "->" in s, 0 when there is none.
ArrowAt(s) ==
  IF \E i \in 1..(Len(s) - 1) : s[i] = "-" /\ s[i+1] = ">"
  THEN CHOOSE i \in 1..(Len(s) - 1) :
         /\ s[i] = "-" /\ s[i+1] = ">"
         /\ \A j \in 1..(i - 1) : ~(s[j] = "-" /\ s[j+1] = ">")
  ELSE 0

\* strings.SplitN(s, "->", 2)
SplitArrow(s) ==
  LET i == ArrowAt(s) IN
  IF i = 0 THEN <<s>> ELSE <<SubSeq(s, 1, i - 1), SubSeq(s, i + 2, Len(s))>>

RECURSIVE DigitsVal(_)
DigitsVal(s) == IF s = <<>> THEN 0 ELSE 10 * DigitsVal(SubSeq(s, 1, Len(s) - 1)) + DigitVal(s[Len(s)])

\* strconv.Atoi: an optional sign, then one or more digits.
Atoi(s) ==
  LET signed == s # <<>> /\ s[1] \in {"+", "-"}
      body == IF signed THEN Tail(s) ELSE s
  IN IF body = <<>> \/ \E i \in 1..Len(body) : ~IsDigit(body[i])
     THEN [ok |-> FALSE, val |-> 0]
     ELSE [ok |-> TRUE,
           val |-> IF signed /\ s[1] = "-" THEN 0 - DigitsVal(body) ELSE DigitsVal(body)]

\* The loop over cfg.Reverse: the map so far, or the first error.
RECURSIVE ParseReverse(_, _)
ParseReverse(entries, m) ==
  IF entries = <<>> THEN [err |-> "none", map |-> m]
  ELSE LET kv == SplitArrow(Head(entries)) IN
       IF Len(kv) # 2 THEN [err |-> "could not parse mapping setting", map |-> m]
       ELSE LET p == Atoi(kv[1]) IN
            IF ~p.ok THEN [err |-> "invalid portnumber", map |-> m]
            ELSE ParseReverse(Tail(entries),
                   [q \in (DOMAIN m) \cup {p.val} |-> IF q = p.val THEN kv[2] ELSE m[q]])

EmptyMap == [q \in {} |-> <<>>]

\* config.New: the configuration, or the load error with a nil *Config.
ConfigNew(f) ==
  IF ~f.decodes THEN [err |-> "decode", cfg |-> Nil]
  ELSE LET rm == ParseReverse(f.reverse, EmptyMap) IN
       IF rm.err # "none" THEN [err |-> rm.err, cfg |-> Nil]
       ELSE IF f.use_proxy \notin DOMAIN f.proxies
            THEN [err |-> "proxy setting not found", cfg |-> Nil]
            ELSE [err |-> "none",
                  cfg |-> [Proxy |-> [Name |-> f.use_proxy, Host |-> f.proxies[f.use_proxy]],
                           ReverseMap |-> rm.map,
                           DirectHosts |-> {f.direct_hosts[i] : i \in DOMAIN f.direct_hosts}]]

\* The configuration files the file system may hold.
Upstreams == [a |-> "hostA", b |-> "hostB"]
Files == <<
  [decodes |-> TRUE, use_proxy |-> "a", reverse |-> << <<"2", "-", ">", "h">> >>,
   direct_hosts |-> <<"d">>, proxies |-> Upstreams],
  [decodes |-> TRUE, use_proxy |-> "b", reverse |-> << <<"1", "-", ">", "g">> >>,
   direct_hosts |-> <<>>, proxies |-> Upstreams],
  [decodes |-> TRUE, use_proxy |-> "c", reverse |-> << <<"2", "-", ">", "h">> >>,
   direct_hosts |-> <<>>, proxies |-> Upstreams],
  [decodes |-> TRUE, use_proxy |-> "a", reverse |-> << <<"2", "h">> >>,
   direct_hosts |-> <<>>, proxies |-> Upstreams],
  [decodes |-> TRUE, use_proxy |-> "a", reverse |-> << <<"x", "-", ">", "h">> >>,
   direct_hosts |-> <<>>, proxies |-> Upstreams],
  [decodes |-> FALSE, use_proxy |-> "", reverse |-> <<>>,
   direct_hosts |-> <<>>, proxies |-> Upstreams] >>
FileIds == DOMAIN Files

\* The flags -proxy_port and -ports.
BasePort == 1
NumPorts == 1
HTTPPorts == BasePort..(BasePort + NumPorts - 1)

Set(f, x, v) == [f EXCEPT ![x] = v]

\* ------------------------------------------------ the sockets and the ports
\* net.Listen succeeds when no open listener of the process holds the port.
PortFree(p) == \A l \in Listeners : ~(lbound[l] /\ lport[l] = p)

ConnsOf(l) == {c \in Conns : cl[c] = l}
OpenConnsOf(l) == {c \in ConnsOf(l) : copen[c]}

\* ----------------------------------------------- HTTP.Close / SOCKS.Close
\* A context p begins a Close() call on listener l.
BeginClose(p, l) ==
  /\ callpc' = Set(callpc, p, "lclose")
  /\ calltgt' = Set(calltgt, p, l)
  /\ ncalls' = Set(ncalls, l, ncalls[l] + 1)
  /\ UNCHANGED <<tun, evars>>

\* err := srv.listener.Close()   (http.go:38)
HTTPCloseListener(p) ==
  /\ alive /\ callpc[p] = "lclose" /\ lkind[calltgt[p]] = "http"
  /\ IF linit[calltgt[p]]
     THEN /\ lbound' = Set(lbound, calltgt[p], FALSE)
          /\ callpc' = Set(callpc, p, "send")
          /\ zeroAtClose' = IF lbound[calltgt[p]]
                            THEN Set(zeroAtClose, calltgt[p], OpenConnsOf(calltgt[p]) = {})
                            ELSE zeroAtClose
     ELSE /\ callpc' = Set(callpc, p, "panic")      \* srv.listener is nil
          /\ UNCHANGED <<lbound, zeroAtClose>>
  /\ UNCHANGED <<lkind, lport, lproxy, ldest, linit, lclosed, spc, tpc, conns, tdone, epc, timer, ka>>
  /\ UNCHANGED <<cvars, calltgt, rvars, ncalls, nrets, nilread, rbefore>>
  /\ UNCHANGED <<tun, evars>>

\* srv.sig <- struct{}{}   (http.go:40), received by run's goroutine at <-c (http.go:141)
HTTPCloseSignal(p) ==
  /\ alive /\ callpc[p] = "send" /\ epc[calltgt[p]] = "recv"
  /\ callpc' = Set(callpc, p, "recv")
  /\ epc' = Set(epc, calltgt[p], "close")
  /\ UNCHANGED <<lkind, lport, lproxy, ldest, lbound, linit, lclosed, spc, tpc, conns, tdone, timer, ka>>
  /\ UNCHANGED <<cvars, calltgt, rvars, hvars>>
  /\ UNCHANGED <<tun, evars>>

\* srv.sig <- struct{}{} of one Close() received by the <-srv.sig of another
\* Close() on the same listener (http.go:40-41): sig is one unbuffered channel.
HTTPCloseSignalStolen(p, q) ==
  /\ alive /\ p # q /\ callpc[p] = "send" /\ callpc[q] = "recv" /\ calltgt[p] = calltgt[q]
  /\ callpc' = [callpc EXCEPT ![p] = "recv", ![q] = "ret"]
  /\ nrets' = Set(nrets, calltgt[q], nrets[calltgt[q]] + 1)
  /\ UNCHANGED <<lvars, cvars, calltgt, rvars, ncalls, zeroAtClose, nilread, rbefore>>
  /\ UNCHANGED <<tun, evars>>

\* A SOCKS.Close that also closes the tunnels its listener has accepted.
SOCKSCloseForcing(p) ==
  /\ alive /\ callpc[p] = "lclose" /\ lkind[calltgt[p]] = "socks"
  /\ lbound' = Set(lbound, calltgt[p], FALSE)
  /\ lclosed' = Set(lclosed, calltgt[p], TRUE)
  /\ callpc' = Set(callpc, p, "ret")
  /\ nrets' = Set(nrets, calltgt[p], nrets[calltgt[p]] + 1)
  /\ copen' = [c \in Conns |-> copen[c] /\ cl[c] # calltgt[p]]
  /\ cwho' = [c \in Conns |-> IF copen[c] /\ cl[c] = calltgt[p] THEN "kill" ELSE cwho[c]]
  /\ UNCHANGED <<lkind, lport, lproxy, ldest, linit, spc, tpc, conns, tdone, epc, timer, ka>>
  /\ UNCHANGED <<cl, cst, cb, creq, calltgt, rvars, ncalls, zeroAtClose, nilread, rbefore>>
  /\ UNCHANGED <<tun, evars>>

\* srv.closed = true; return srv.listener.Close()   (socks.go:89-92)
SOCKSClose(p) ==
  /\ alive /\ callpc[p] = "lclose" /\ lkind[calltgt[p]] = "socks"
  /\ IF linit[calltgt[p]]
     THEN /\ lbound' = Set(lbound, calltgt[p], FALSE)
          /\ callpc' = Set(callpc, p, "ret")
          /\ nrets' = Set(nrets, calltgt[p], nrets[calltgt[p]] + 1)
     ELSE /\ callpc' = Set(callpc, p, "panic")      \* srv.listener is nil
          /\ UNCHANGED <<lbound, nrets>>
  /\ lclosed' = Set(lclosed, calltgt[p], TRUE)
  /\ UNCHANGED <<lkind, lport, lproxy, ldest, linit, spc, tpc, conns, tdone, epc, timer, ka>>
  /\ UNCHANGED <<cvars, calltgt, rvars, ncalls, zeroAtClose, nilread, rbefore>>
  /\ UNCHANGED <<tun, evars>>

\* ------------------------------------------------------- run (http.go:96)
\* srv.listener = l; srv.sig = make(chan struct{}); run starts its two goroutines
HTTPInit(l) ==
  /\ alive /\ lkind[l] = "http" /\ spc[l] = "init"
  /\ linit' = Set(linit, l, TRUE)
  /\ tpc' = Set(tpc, l, "select")
  /\ epc' = Set(epc, l, "recv")
  /\ spc' = Set(spc, l, "serve")
  /\ UNCHANGED <<lkind, lport, lproxy, ldest, lbound, lclosed, conns, tdone, timer, ka>>
  /\ UNCHANGED <<cvars, callvars, rvars, hvars>>
  /\ UNCHANGED <<tun, evars>>

\* server.Serve(listener) returns once the listener is closed   (http.go:148)
ServeReturn(l) ==
  /\ alive /\ lkind[l] = "http" /\ spc[l] = "serve" /\ ~lbound[l]
  /\ spc' = Set(spc, l, "stop")
  /\ UNCHANGED <<lkind, lport, lproxy, ldest, lbound, linit, lclosed, tpc, conns, tdone, epc, timer, ka>>
  /\ UNCHANGED <<cvars, callvars, rvars, hvars>>
  /\ UNCHANGED <<tun, evars>>

\* stop <- done, received by the tracker (http.go:152, 125-129); run then waits
\* in its select with a fresh time.After(timeout)   (http.go:155-159)
RunStop(l) ==
  /\ alive /\ spc[l] = "stop" /\ tpc[l] = "select"
  /\ tdone' = Set(tdone, l, TRUE)
  /\ tpc' = Set(tpc, l, IF conns[l] = {} THEN "senddone" ELSE "select")
  /\ spc' = Set(spc, l, "select")
  /\ timer' = Set(timer, l, "armed")
  /\ UNCHANGED <<lkind, lport, lproxy, ldest, lbound, linit, lclosed, conns, epc, ka>>
  /\ UNCHANGED <<cvars, callvars, rvars, hvars>>
  /\ UNCHANGED <<tun, evars>>

\* case <-done   (http.go:156), sent by the tracker (http.go:122 or 127)
RunRecvDone(l) ==
  /\ alive /\ spc[l] = "select" /\ tpc[l] = "senddone"
  /\ spc' = Set(spc, l, "ended")
  /\ tpc' = Set(tpc, l, "exit")
  /\ timer' = Set(timer, l, "off")
  /\ UNCHANGED <<lkind, lport, lproxy, ldest, lbound, linit, lclosed, conns, tdone, epc, ka>>
  /\ UNCHANGED <<cvars, callvars, rvars, hvars>>
  /\ UNCHANGED <<tun, evars>>

\* case <-time.After(timeout)   (http.go:157)
RunTimeout(l) ==
  /\ alive /\ spc[l] = "select" /\ timer[l] = "fired"
  /\ spc' = Set(spc, l, "kill")
  /\ timer' = Set(timer, l, "used")
  /\ UNCHANGED <<lkind, lport, lproxy, ldest, lbound, linit, lclosed, tpc, conns, tdone, epc, ka>>
  /\ UNCHANGED <<cvars, callvars, rvars, hvars>>
  /\ UNCHANGED <<tun, evars>>

\* kill <- struct{}{}, received by the tracker   (http.go:158, 130)
RunKill(l) ==
  /\ alive /\ spc[l] = "kill" /\ tpc[l] = "select"
  /\ spc' = Set(spc, l, "ended")
  /\ tpc' = Set(tpc, l, "killing")
  /\ UNCHANGED <<lkind, lport, lproxy, ldest, lbound, linit, lclosed, conns, tdone, epc, timer, ka>>
  /\ UNCHANGED <<cvars, callvars, rvars, hvars>>
  /\ UNCHANGED <<tun, evars>>

\* for k := range connections { k.Close() }; return   (http.go:131-134)
TrackerKillAll(l) ==
  /\ alive /\ tpc[l] = "killing"
  /\ tpc' = Set(tpc, l, "exit")
  /\ copen' = [c \in Conns |-> IF c \in conns[l] THEN FALSE ELSE copen[c]]
  /\ cwho' = [c \in Conns |-> IF c \in conns[l] /\ copen[c] THEN "kill" ELSE cwho[c]]
  /\ UNCHANGED <<lkind, lport, lproxy, ldest, lbound, linit, lclosed, spc, conns, tdone, epc, timer, ka>>
  /\ UNCHANGED <<cl, cst, cb, creq, callvars, rvars, hvars>>
  /\ UNCHANGED <<tun, evars>>

\* server.SetKeepAlivesEnabled(false); listener.Close()   (http.go:142-143)
EndedClose(l) ==
  /\ alive /\ epc[l] = "close"
  /\ ka' = Set(ka, l, FALSE)
  /\ lbound' = Set(lbound, l, FALSE)
  /\ epc' = Set(epc, l, "send")
  /\ UNCHANGED <<lkind, lport, lproxy, ldest, linit, lclosed, spc, tpc, conns, tdone, timer>>
  /\ UNCHANGED <<cvars, callvars, rvars, hvars>>
  /\ UNCHANGED <<tun, evars>>

\* ended <- struct{}{} received by the <-ended of c <- <-ended   (http.go:144, 163)
RunRecvEnded(l) ==
  /\ alive /\ spc[l] = "ended" /\ epc[l] = "send"
  /\ spc' = Set(spc, l, "sig")
  /\ epc' = Set(epc, l, "exit")
  /\ UNCHANGED <<lkind, lport, lproxy, ldest, lbound, linit, lclosed, tpc, conns, tdone, timer, ka>>
  /\ UNCHANGED <<cvars, callvars, rvars, hvars>>
  /\ UNCHANGED <<tun, evars>>

\* c <- ... received by the <-srv.sig of a Close(); run returns, and Close() with it
\* (http.go:163-164, 41-42; the deferred l.Close() of serveHTTP, http.go:63)
RunSignalClose(l, q) ==
  /\ alive /\ spc[l] = "sig" /\ callpc[q] = "recv" /\ calltgt[q] = l
  /\ spc' = Set(spc, l, "ret")
  /\ lbound' = Set(lbound, l, FALSE)
  /\ callpc' = Set(callpc, q, "ret")
  /\ nrets' = Set(nrets, l, nrets[l] + 1)
  /\ UNCHANGED <<lkind, lport, lproxy, ldest, linit, lclosed, tpc, conns, tdone, epc, timer, ka>>
  /\ UNCHANGED <<cvars, calltgt, rvars, ncalls, zeroAtClose, nilread, rbefore>>
  /\ UNCHANGED <<tun, evars>>

\* case conn := <-add   (http.go:117-118), sent by ConnState at StateActive (http.go:103)
TrackerAdd(l, c) ==
  /\ alive /\ tpc[l] = "select" /\ cl[c] = l /\ cb[c] = "add"
  /\ conns' = Set(conns, l, conns[l] \cup {c})
  /\ cb' = Set(cb, c, "none")
  /\ UNCHANGED <<lkind, lport, lproxy, ldest, lbound, linit, lclosed, spc, tpc, tdone, epc, timer, ka>>
  /\ UNCHANGED <<cl, cst, copen, creq, cwho, callvars, rvars, hvars>>
  /\ UNCHANGED <<tun, evars>>

\* case conn := <-remove   (http.go:119-124), sent by ConnState at StateClosed or
\* StateIdle (http.go:104-105)
TrackerRemove(l, c) ==
  /\ alive /\ tpc[l] = "select" /\ cl[c] = l /\ cb[c] = "remove"
  /\ conns' = Set(conns, l, conns[l] \ {c})
  /\ cb' = Set(cb, c, "none")
  /\ tpc' = Set(tpc, l, IF tdone[l] /\ conns[l] \ {c} = {} THEN "senddone" ELSE "select")
  /\ UNCHANGED <<lkind, lport, lproxy, ldest, lbound, linit, lclosed, spc, tdone, epc, timer, ka>>
  /\ UNCHANGED <<cl, cst, copen, creq, cwho, callvars, rvars, hvars>>
  /\ UNCHANGED <<tun, evars>>

\* The most listeners one configuration opens besides the HTTP ports.
MaxReverse == 1
InFlight == {p \in Procs : rpc[p] # "idle"}
Requested == {c \in Conns : cst[c] = "active" /\ creq[c] = "reload"}
\* Listener objects are left for one more reload, whatever it opens.
CanReload == (MaxListeners + 1 - nextL) >= (Cardinality(InFlight \cup Requested) + 1) * (NumPorts + MaxReverse)

\* ------------------------------------- the connections of an HTTP listener
Requests == {"proxy", "connect", "reload", "pac"}

\* The server accepts a connection (StateNew: the callback does nothing).
HTTPAccept(l, c) ==
  /\ alive /\ lkind[l] = "http" /\ spc[l] = "serve" /\ lbound[l]
  /\ cst[c] = "free" /\ \A d \in Conns : d < c => cst[d] # "free"
  /\ cl' = Set(cl, c, l)
  /\ cst' = Set(cst, c, "new")
  /\ copen' = Set(copen, c, TRUE)
  /\ UNCHANGED <<lvars, cb, creq, cwho, callvars, rvars, hvars>>
  /\ UNCHANGED <<tun, evars>>

\* A request arrives: StateActive, and the callback blocks on add <- conn.
ReadRequest(c, req) ==
  /\ alive /\ cst[c] \in {"new", "idle"} /\ copen[c] /\ cb[c] = "none"
  /\ req = "reload" => CanReload
  /\ cst' = Set(cst, c, "active")
  /\ cb' = Set(cb, c, "add")
  /\ creq' = Set(creq, c, req)
  /\ UNCHANGED <<lvars, cl, copen, cwho, callvars, rvars, hvars>>
  /\ clate' = Set(clate, c, ncalls[cl[c]] > 0)
  /\ UNCHANGED <<tun, tempDelay, nerr, hreq>>

Handling(c, req) == cst[c] = "active" /\ cb[c] = "none" /\ creq[c] = req

\* rp.ServeHTTP(w, r) ends: the upstream answered, or the exchange failed   (http.go:90)
ProxyResponse(c) ==
  /\ alive /\ Handling(c, "proxy")
  /\ creq' = Set(creq, c, "finishing")
  /\ UNCHANGED <<lvars, cl, cst, cb, copen, cwho, callvars, rvars, hvars>>
  /\ UNCHANGED <<tun, evars>>

\* hij.Hijack()   (http.go:173): StateHijacked, for which the callback has no case
Hijack(c) ==
  /\ alive /\ Handling(c, "connect")
  /\ cst' = Set(cst, c, "hijacked")
  /\ creq' = Set(creq, c, "tunnel")
  /\ tun' = Set(tun, c, [Tun0 EXCEPT !.pc = "dial"])
  /\ UNCHANGED <<lvars, cl, cb, copen, cwho, callvars, rvars, hvars>>
  /\ UNCHANGED evars

\* connectSOCKS returns and the deferred c.Close() / c.close() runs
\* (http.go:187-190, socks.go:112-115)
TunnelEnd(c) ==
  /\ alive /\ creq[c] = "tunnel"
  /\ copen' = Set(copen, c, FALSE)
  /\ cwho' = Set(cwho, c, IF copen[c] THEN "handler" ELSE cwho[c])
  /\ cst' = Set(cst, c, IF cst[c] = "tunnel" THEN "closed" ELSE cst[c])
  /\ creq' = Set(creq, c, "none")
  /\ tun' = Set(tun, c, [tun[c] EXCEPT !.pc = "done"])
  /\ UNCHANGED <<lvars, cl, cb, callvars, rvars, hvars>>
  /\ UNCHANGED evars

\* ------------------------------------------- connectSOCKS (part_000:18-72)
\* The steps of one connectSOCKS call, for the tunnel of connection c.
TunFrame == UNCHANGED <<lvars, cvars, callvars, rvars, hvars, evars>>
InTunnel(c, at) == alive /\ creq[c] = "tunnel" /\ tun[c].pc = at

\* The intro its caller passes: the status line for CONNECT (http.go:190), nil
\* for a reverse listener (socks.go:115).
Intro(c) == IF lkind[cl[c]] = "http" THEN <<"200 OK">> ELSE <<>>
Outcomes == {"nodialer", "nodial", "ok"}
DataIn(out) == Cardinality({i \in DOMAIN out : out[i] = "data"})
LocalBroken(c) == tun[c].peer = "closed" \/ ~copen[c]

\* A dial that writes the intro before it knows the outcome.
DialWritingFirst(c, outcome) ==
  /\ InTunnel(c, "dial") /\ outcome \in Outcomes
  /\ tun' = Set(tun, c,
       IF outcome = "ok"
       THEN [tun[c] EXCEPT !.conn = "open", !.out = @ \o Intro(c), !.pc = "start"]
       ELSE [tun[c] EXCEPT !.err = outcome, !.out = @ \o Intro(c), !.pc = "ret"])
  /\ TunFrame

\* A dial after which the copies start at once, intro or not.
DialSkippingIntro(c, outcome) ==
  /\ InTunnel(c, "dial") /\ outcome \in Outcomes
  /\ tun' = Set(tun, c,
       IF outcome = "ok"
       THEN [tun[c] EXCEPT !.conn = "open", !.pc = "start"]
       ELSE [tun[c] EXCEPT !.err = outcome, !.pc = "ret"])
  /\ TunFrame

\* d, err = proxy.SOCKS5(...); conn, err = d.Dial("tcp", host)   (part_000:26-36):
\* either fails and the call returns err, or the tunnel exists.
Dial(c, outcome) ==
  /\ InTunnel(c, "dial") /\ outcome \in Outcomes
  /\ tun' = Set(tun, c,
       IF outcome = "ok"
       THEN [tun[c] EXCEPT !.conn = "open", !.pc = IF Intro(c) # <<>> THEN "intro" ELSE "start"]
       ELSE [tun[c] EXCEPT !.err = outcome, !.pc = "ret"])
  /\ TunFrame

\* if intro != nil { if _, err = c.Write(intro); err != nil { return } }
\* (part_000:38-42); the write can fail once the local connection is broken
WriteIntro(c, ok) ==
  /\ InTunnel(c, "intro")
  /\ ~ok => LocalBroken(c)
  /\ tun' = Set(tun, c,
       IF ok THEN [tun[c] EXCEPT !.out = @ \o Intro(c), !.pc = "start"]
             ELSE [tun[c] EXCEPT !.err = "write", !.pc = "ret"])
  /\ TunFrame

\* connected = true; wg.Add(2); go io.Copy(c, conn); go io.Copy(conn, c)
\* (part_000:44-56)
StartCopies(c) ==
  /\ InTunnel(c, "start")
  /\ tun' = Set(tun, c, [tun[c] EXCEPT !.connected = TRUE, !.up = "run", !.down = "run", !.pc = "wait"])
  /\ TunFrame

\* io.Copy(c, conn) relays a chunk the destination sent, or fails to write it
\* to a broken local connection   (part_000:51)
RelayDown(c, ok) ==
  /\ InTunnel(c, "wait") /\ tun[c].down = "run" /\ tun[c].dest = "open"
  /\ DataIn(tun[c].out) < MaxData
  /\ ~ok => LocalBroken(c)
  /\ tun' = Set(tun, c, IF ok THEN [tun[c] EXCEPT !.out = Append(@, "data")]
                              ELSE [tun[c] EXCEPT !.down = "err"])
  /\ TunFrame

\* io.Copy(conn, c) relays a chunk the local peer sent, or fails to write it
\* to a tunnel whose destination is gone   (part_000:55)
RelayUp(c, ok) ==
  /\ InTunnel(c, "wait") /\ tun[c].up = "run" /\ tun[c].peer = "open" /\ copen[c]
  /\ tun[c].sent < MaxData
  /\ ~ok => tun[c].dest = "closed"
  /\ tun' = Set(tun, c, IF ok THEN [tun[c] EXCEPT !.sent = @ + 1]
                              ELSE [tun[c] EXCEPT !.up = "err"])
  /\ TunFrame

\* io.Copy(c, conn) ends: conn.Read reports the end of the stream (io.Copy
\* returns nil) or an error   (part_000:51)
CopyDownEnd(c, e) ==
  /\ InTunnel(c, "wait") /\ tun[c].down = "run" /\ tun[c].dest = "closed"
  /\ e \in {"eof", "err"}
  /\ tun' = Set(tun, c, [tun[c] EXCEPT !.down = e])
  /\ TunFrame

\* io.Copy(conn, c) ends: c.Read reports the end of the stream or an error
\* (part_000:55)
CopyUpEnd(c, e) ==
  /\ InTunnel(c, "wait") /\ tun[c].up = "run" /\ LocalBroken(c)
  /\ e \in {"eof", "err"}
  /\ tun' = Set(tun, c, [tun[c] EXCEPT !.up = e])
  /\ TunFrame

\* The err connectSOCKS returns for the results e1 and e2 of its copies
\* (part_000:59-71)
CopyErr(e1, e2) ==
  IF e1 = "err" /\ e2 = "err" THEN "two errors"
  ELSE IF e1 = "err" THEN "e1"
  ELSE IF e2 = "err" THEN "e2"
  ELSE "none"

\* A wait that is over when the first copy has ended.
WaitForOne(c) ==
  /\ InTunnel(c, "wait") /\ (tun[c].up # "run" \/ tun[c].down # "run")
  /\ tun' = Set(tun, c, [tun[c] EXCEPT !.err = CopyErr(tun[c].down, tun[c].up), !.pc = "ret"])
  /\ TunFrame

\* wg.Wait() returns when both copies have ended   (part_000:57-71)
Wait(c) ==
  /\ InTunnel(c, "wait") /\ tun[c].up # "run" /\ tun[c].down # "run"
  /\ tun' = Set(tun, c, [tun[c] EXCEPT !.err = CopyErr(tun[c].down, tun[c].up), !.pc = "ret"])
  /\ TunFrame

\* What a write through the ResponseWriter adds to the connection: nothing once
\* the connection has been hijacked (net/http answers ErrHijacked).
ResponseWrite(c, item) ==
  IF cst[c] = "hijacked" THEN tun[c].out ELSE Append(tun[c].out, item)

\* connectSOCKS has returned: serveHTTPConnect calls http.Error when it was not
\* connected, then its deferred c.Close() runs (http.go:180-196); conn.serve
\* logs the error and its deferred c.close() runs (socks.go:105-118).
TunnelReturn(c) ==
  /\ InTunnel(c, "ret")
  /\ tun' = Set(tun, c,
       [tun[c] EXCEPT !.pc = "done",
                      !.out = IF lkind[cl[c]] = "http" /\ tun[c].err # "none" /\ ~tun[c].connected
                              THEN ResponseWrite(c, "500") ELSE @])
  /\ copen' = Set(copen, c, FALSE)
  /\ cwho' = Set(cwho, c, IF copen[c] THEN "handler" ELSE cwho[c])
  /\ cst' = Set(cst, c, IF cst[c] = "tunnel" THEN "closed" ELSE cst[c])
  /\ creq' = Set(creq, c, "none")
  /\ UNCHANGED <<lvars, cl, cb, callvars, rvars, hvars>>
  /\ UNCHANGED evars

\* The local peer closes its side of a connection that carries a tunnel.
TunPeerCloses(c) ==
  /\ alive /\ creq[c] = "tunnel" /\ tun[c].pc \in {"dial", "intro", "start", "wait"}
  /\ tun[c].peer = "open"
  /\ tun' = Set(tun, c, [tun[c] EXCEPT !.peer = "closed"])
  /\ TunFrame

\* The destination closes its side of an established tunnel.
TunDestCloses(c) ==
  /\ alive /\ creq[c] = "tunnel" /\ tun[c].conn = "open" /\ tun[c].pc \in {"intro", "start", "wait"}
  /\ tun[c].dest = "open"
  /\ tun' = Set(tun, c, [tun[c] EXCEPT !.dest = "closed"])
  /\ TunFrame

\* The steps a tunnel takes without anything new arriving from either side.
TunnelStep(c) ==
  \/ \E ok \in BOOLEAN : WriteIntro(c, ok)
  \/ StartCopies(c)
  \/ \E e \in {"eof", "err"} : CopyDownEnd(c, e) \/ CopyUpEnd(c, e)
  \/ Wait(c)
  \/ TunnelReturn(c)

\* serveProxyPac reads rl.cfg.DirectHosts   (part_001:561); a nil rl.cfg panics,
\* the server recovers and closes the connection
ServePac(c) ==
  /\ alive /\ Handling(c, "pac")
  /\ IF cfg = Nil
     THEN /\ nilread' = TRUE
          /\ copen' = Set(copen, c, FALSE)
          /\ cwho' = Set(cwho, c, IF copen[c] THEN "server" ELSE cwho[c])
          /\ cst' = Set(cst, c, "closed")
          /\ cb' = Set(cb, c, "remove")
          /\ creq' = Set(creq, c, "none")
     ELSE /\ creq' = Set(creq, c, "finishing")
          /\ UNCHANGED <<nilread, copen, cwho, cst, cb>>
  /\ UNCHANGED <<lvars, cl, callvars, rvars, ncalls, nrets, zeroAtClose, rbefore>>
  /\ UNCHANGED <<tun, evars>>

\* The response is complete: the connection goes idle (StateIdle) or is closed
\* (StateClosed); either way the callback blocks on remove <- conn.
ServerFinish(c, keep) ==
  /\ alive /\ cst[c] = "active" /\ cb[c] = "none" /\ creq[c] \in {"finishing", "finishclose"}
  /\ keep => creq[c] = "finishing" /\ ka[cl[c]] /\ copen[c]
  /\ cst' = Set(cst, c, IF keep THEN "idle" ELSE "closed")
  /\ copen' = Set(copen, c, keep)
  /\ cwho' = Set(cwho, c, IF ~keep /\ copen[c] THEN "server" ELSE cwho[c])
  /\ cb' = Set(cb, c, "remove")
  /\ creq' = Set(creq, c, "none")
  /\ UNCHANGED <<lvars, cl, callvars, rvars, hvars>>
  /\ UNCHANGED <<tun, evars>>

\* The client closes a connection on which no request is in progress.
PeerClose(c) ==
  /\ alive /\ cst[c] \in {"new", "idle"} /\ copen[c] /\ cb[c] = "none"
  /\ cst' = Set(cst, c, "closed")
  /\ copen' = Set(copen, c, FALSE)
  /\ cwho' = Set(cwho, c, "peer")
  /\ cb' = Set(cb, c, "remove")
  /\ UNCHANGED <<lvars, cl, creq, callvars, rvars, hvars>>
  /\ UNCHANGED <<tun, evars>>

\* ------------------------------------------- serveSOCKS (socks.go:56-86)
\* srv.listener = l
SOCKSInit(l) ==
  /\ alive /\ lkind[l] = "socks" /\ spc[l] = "init"
  /\ linit' = Set(linit, l, TRUE)
  /\ spc' = Set(spc, l, "accept")
  /\ UNCHANGED <<lkind, lport, lproxy, ldest, lbound, lclosed, tpc, conns, tdone, epc, timer, ka>>
  /\ UNCHANGED <<cvars, callvars, rvars, hvars>>
  /\ UNCHANGED <<tun, evars>>

\* rw, err := l.Accept() succeeds; tempDelay = 0; c, err := srv.newConn(rw);
\* go c.serve()   (socks.go:62, 77-83)
SOCKSAccept(l, c) ==
  /\ alive /\ lkind[l] = "socks" /\ spc[l] = "accept" /\ lbound[l]
  /\ cst[c] = "free" /\ \A d \in Conns : d < c => cst[d] # "free"
  /\ cl' = Set(cl, c, l)
  /\ cst' = Set(cst, c, "tunnel")
  /\ creq' = Set(creq, c, "tunnel")
  /\ copen' = Set(copen, c, TRUE)
  /\ tun' = Set(tun, c, [Tun0 EXCEPT !.pc = "dial"])
  /\ UNCHANGED <<lvars, cb, cwho, callvars, rvars, hvars>>
  /\ tempDelay' = Set(tempDelay, l, 0)
  /\ nerr' = Set(nerr, l, 0)
  /\ UNCHANGED <<clate, hreq>>

\* l.Accept() fails on the closed listener and serveSOCKS returns the error
SOCKSServeReturn(l) ==
  /\ alive /\ lkind[l] = "socks" /\ spc[l] = "accept" /\ ~lbound[l]
  /\ spc' = Set(spc, l, "ret")
  /\ UNCHANGED <<lkind, lport, lproxy, ldest, lbound, linit, lclosed, tpc, conns, tdone, epc, timer, ka>>
  /\ UNCHANGED <<cvars, callvars, rvars, hvars>>
  /\ UNCHANGED <<tun, evars>>

\* A temporary error after which the delay doubles without a limit.
SOCKSAcceptTemporaryUncapped(l) ==
  /\ alive /\ lkind[l] = "socks" /\ spc[l] = "accept" /\ lbound[l] /\ nerr[l] < MaxErrs
  /\ tempDelay' = Set(tempDelay, l, IF tempDelay[l] = 0 THEN FirstDelay ELSE tempDelay[l] * 2)
  /\ nerr' = Set(nerr, l, nerr[l] + 1)
  /\ spc' = Set(spc, l, "sleep")
  /\ UNCHANGED <<lkind, lport, lproxy, ldest, lbound, linit, lclosed, tpc, conns, tdone, epc, timer, ka>>
  /\ UNCHANGED <<cvars, callvars, rvars, hvars, tun, clate, hreq>>

\* The next value of tempDelay   (socks.go:65-72)
NextDelay(d) ==
  LET n == IF d = 0 THEN FirstDelay ELSE d * 2
  IN IF n > MaxDelay THEN MaxDelay ELSE n

\* l.Accept() returns a net.Error that is Temporary(): tempDelay is set and the
\* loop goes to time.Sleep(tempDelay)   (socks.go:62-74)
SOCKSAcceptTemporary(l) ==
  /\ alive /\ lkind[l] = "socks" /\ spc[l] = "accept" /\ lbound[l] /\ nerr[l] < MaxErrs
  /\ tempDelay' = Set(tempDelay, l, NextDelay(tempDelay[l]))
  /\ nerr' = Set(nerr, l, nerr[l] + 1)
  /\ spc' = Set(spc, l, "sleep")
  /\ UNCHANGED <<lkind, lport, lproxy, ldest, lbound, linit, lclosed, tpc, conns, tdone, epc, timer, ka>>
  /\ UNCHANGED <<cvars, callvars, rvars, hvars, tun, clate, hreq>>

\* time.Sleep(tempDelay) returns; continue   (socks.go:74-75)
SOCKSSleepDone(l) ==
  /\ alive /\ lkind[l] = "socks" /\ spc[l] = "sleep"
  /\ spc' = Set(spc, l, "accept")
  /\ UNCHANGED <<lkind, lport, lproxy, ldest, lbound, linit, lclosed, tpc, conns, tdone, epc, timer, ka>>
  /\ UNCHANGED <<cvars, callvars, rvars, hvars>>
  /\ UNCHANGED <<tun, evars>>

\* l.Accept() on the open listener returns an error that is not temporary:
\* return err, and the deferred l.Close() runs   (socks.go:57, 63-77)
SOCKSAcceptFails(l) ==
  /\ alive /\ lkind[l] = "socks" /\ spc[l] = "accept" /\ lbound[l]
  /\ spc' = Set(spc, l, "ret")
  /\ lbound' = Set(lbound, l, FALSE)
  /\ UNCHANGED <<lkind, lport, lproxy, ldest, linit, lclosed, tpc, conns, tdone, epc, timer, ka>>
  /\ UNCHANGED <<cvars, callvars, rvars, hvars>>
  /\ UNCHANGED <<tun, evars>>

\* ------------------------- ListenAndServe (http.go:47-52, socks.go:41-46)
\* l, err := net.Listen("tcp", addr)
Listen(l) ==
  /\ alive /\ spc[l] = "listen"
  /\ lbound' = Set(lbound, l, PortFree(lport[l]))
  /\ spc' = Set(spc, l, "senderr")
  /\ UNCHANGED <<lkind, lport, lproxy, ldest, linit, lclosed, tpc, conns, tdone, epc, timer, ka>>
  /\ UNCHANGED <<cvars, callvars, rvars, hvars>>
  /\ UNCHANGED <<tun, evars>>

\* ------------------------------------------------ relay.reload (main.go)
\* A reload that goes on to rl.Close() whatever config.New returned.
ReloadLoadUnchecked(p) ==
  /\ alive /\ rpc[p] = "load"
  /\ cfg' = ConfigNew(Files[file]).cfg
  /\ rpc' = Set(rpc, p, "rlclose")
  /\ rres' = Set(rres, p, "none")
  /\ UNCHANGED <<lvars, cvars, callvars, hvars>>
  /\ UNCHANGED <<rsnap, ridx, rsrvs, ri, rmap, rrem, rcur, running, file, wpc, alive, wt, wclock, evq, nextL, edits>>
  /\ UNCHANGED <<tun, evars>>

\* rl.cfg, err = config.New(rl.toml); if err != nil { return err }   (main.go:125-128)
ReloadLoad(p) ==
  /\ alive /\ rpc[p] = "load"
  /\ LET r == ConfigNew(Files[file]) IN
     /\ cfg' = r.cfg
     /\ IF r.err # "none"
        THEN /\ rpc' = Set(rpc, p, "done")
             /\ rres' = Set(rres, p, "loaderr")
        ELSE /\ rpc' = Set(rpc, p, "rlclose")
             /\ rres' = Set(rres, p, "none")
  /\ UNCHANGED <<lvars, cvars, callvars, hvars>>
  /\ UNCHANGED <<rsnap, ridx, rsrvs, ri, rmap, rrem, rcur, running, file, wpc, alive, wt, wclock, evq, nextL, edits>>
  /\ UNCHANGED <<tun, evars>>

\* A reload that leaves the listeners of rl.running open: rl.Close() as if
\* rl.running were nil.
ReloadCloseRangeNone(p) ==
  /\ alive /\ rpc[p] = "rlclose"
  /\ rpc' = Set(rpc, p, "close")
  /\ rsnap' = Set(rsnap, p, running)
  /\ ridx' = Set(ridx, p, Len(running) + 1)
  /\ UNCHANGED <<lvars, cvars, callvars, hvars>>
  /\ UNCHANGED <<rsrvs, ri, rmap, rrem, rcur, rres, cfg, running, file, wpc, alive, wt, wclock, evq, nextL, edits>>
  /\ UNCHANGED <<tun, evars>>

\* rl.Close() begins: for _, srv := range rl.running   (main.go:130, 112-116)
ReloadCloseRange(p) ==
  /\ alive /\ rpc[p] = "rlclose"
  /\ rpc' = Set(rpc, p, "close")
  /\ rsnap' = Set(rsnap, p, running)
  /\ ridx' = Set(ridx, p, 1)
  /\ UNCHANGED <<lvars, cvars, callvars, hvars>>
  /\ UNCHANGED <<rsrvs, ri, rmap, rrem, rcur, rres, cfg, running, file, wpc, alive, wt, wclock, evq, nextL, edits>>
  /\ UNCHANGED <<tun, evars>>

\* srv.Close() on the next listener of rl.running   (main.go:116-118)
ReloadCloseCall(p) ==
  /\ alive /\ rpc[p] = "close" /\ callpc[p] = "none" /\ ridx[p] <= Len(rsnap[p])
  /\ BeginClose(p, rsnap[p][ridx[p]])
  /\ UNCHANGED <<lvars, cvars, rvars, nrets, zeroAtClose, nilread, rbefore>>

\* that srv.Close() has returned; its error is dropped
ReloadCloseNext(p) ==
  /\ alive /\ rpc[p] = "close" /\ callpc[p] = "ret"
  /\ callpc' = Set(callpc, p, "none")
  /\ ridx' = Set(ridx, p, ridx[p] + 1)
  /\ UNCHANGED <<lvars, cvars, calltgt, hvars>>
  /\ UNCHANGED <<rpc, rsnap, rsrvs, ri, rmap, rrem, rcur, rres, cfg, running, file, wpc, alive, wt, wclock, evq, nextL, edits>>
  /\ UNCHANGED <<tun, evars>>

\* rl.Close() returns nil; var srvs []io.Closer; the loop over the HTTP ports begins
\* (main.go:119, 134-138)
ReloadCloseDone(p) ==
  /\ alive /\ rpc[p] = "close" /\ callpc[p] = "none" /\ ridx[p] > Len(rsnap[p])
  /\ rpc' = Set(rpc, p, "openhttp")
  /\ rsrvs' = Set(rsrvs, p, <<>>)
  /\ ri' = Set(ri, p, BasePort)
  /\ UNCHANGED <<lvars, cvars, callvars, hvars>>
  /\ UNCHANGED <<rsnap, ridx, rmap, rrem, rcur, rres, cfg, running, file, wpc, alive, wt, wclock, evq, nextL, edits>>
  /\ UNCHANGED <<tun, evars>>

\* A new listener object whose goroutine is about to call net.Listen.
NewListener(l, kind, port, proxy, dest) ==
  /\ lkind' = Set(lkind, l, kind)
  /\ lport' = Set(lport, l, port)
  /\ lproxy' = Set(lproxy, l, proxy)
  /\ ldest' = Set(ldest, l, dest)
  /\ spc' = Set(spc, l, "listen")
  /\ UNCHANGED <<lbound, linit, lclosed, tpc, conns, tdone, epc, timer, ka>>

\* srv := proxy.NewHTTP(rl.cfg.Proxy); go srv.ListenAndServe(addr i, listenErr)
\* (main.go:138-147); rl.cfg is read again, and a nil rl.cfg panics
ReloadOpenHTTP(p) ==
  /\ alive /\ rpc[p] = "openhttp" /\ ri[p] \in HTTPPorts /\ nextL <= MaxListeners
  /\ IF cfg = Nil
     THEN /\ rpc' = Set(rpc, p, "panic")
          /\ UNCHANGED <<lvars, rcur, nextL>>
     ELSE /\ NewListener(nextL, "http", ri[p], cfg.Proxy, <<>>)
          /\ rcur' = Set(rcur, p, nextL)
          /\ nextL' = nextL + 1
          /\ rpc' = Set(rpc, p, "waithttp")
  /\ UNCHANGED <<cvars, callvars, hvars>>
  /\ UNCHANGED <<rsnap, ridx, rsrvs, ri, rmap, rrem, rres, cfg, running, file, wpc, alive, wt, wclock, evq, edits>>
  /\ UNCHANGED <<tun, evars>>

\* A reload that takes the bind for successful without waiting for its outcome.
ReloadRecvErrUnwaited(p) ==
  /\ alive /\ rpc[p] \in {"waithttp", "waitsocks"} /\ spc[rcur[p]] \in {"listen", "senderr"}
  /\ spc' = Set(spc, rcur[p], IF spc[rcur[p]] = "senderr" THEN "init" ELSE spc[rcur[p]])
  /\ rsrvs' = Set(rsrvs, p, Append(rsrvs[p], rcur[p]))
  /\ rpc' = Set(rpc, p, IF rpc[p] = "waithttp" THEN "openhttp" ELSE "opensocks")
  /\ ri' = Set(ri, p, IF rpc[p] = "waithttp" THEN ri[p] + 1 ELSE ri[p])
  /\ UNCHANGED rres
  /\ UNCHANGED <<lkind, lport, lproxy, ldest, lbound, linit, lclosed, tpc, conns, tdone, epc, timer, ka>>
  /\ UNCHANGED <<cvars, callvars, hvars>>
  /\ UNCHANGED <<rsnap, ridx, rmap, rrem, rcur, cfg, running, file, wpc, alive, wt, wclock, evq, nextL, edits>>
  /\ UNCHANGED <<tun, evars>>

\* errch <- err of ListenAndServe received by err := <-listenErr (http.go:49,
\* socks.go:43, main.go:148-151, 158-161): on an error reload returns it and
\* ListenAndServe returns, otherwise srvs = append(srvs, srv)
ReloadRecvErr(p) ==
  /\ alive /\ rpc[p] \in {"waithttp", "waitsocks"} /\ spc[rcur[p]] = "senderr"
  /\ IF lbound[rcur[p]]
     THEN /\ spc' = Set(spc, rcur[p], "init")
          /\ rsrvs' = Set(rsrvs, p, Append(rsrvs[p], rcur[p]))
          /\ rpc' = Set(rpc, p, IF rpc[p] = "waithttp" THEN "openhttp" ELSE "opensocks")
          /\ ri' = Set(ri, p, IF rpc[p] = "waithttp" THEN ri[p] + 1 ELSE ri[p])
          /\ UNCHANGED rres
     ELSE /\ spc' = Set(spc, rcur[p], "ret")
          /\ rpc' = Set(rpc, p, "done")
          /\ rres' = Set(rres, p, "listenerr")
          /\ UNCHANGED <<rsrvs, ri>>
  /\ UNCHANGED <<lkind, lport, lproxy, ldest, lbound, linit, lclosed, tpc, conns, tdone, epc, timer, ka>>
  /\ UNCHANGED <<cvars, callvars, hvars>>
  /\ UNCHANGED <<rsnap, ridx, rmap, rrem, rcur, cfg, running, file, wpc, alive, wt, wclock, evq, nextL, edits>>
  /\ UNCHANGED <<tun, evars>>

\* The loop over the HTTP ports is over; range rl.cfg.ReverseMap   (main.go:155)
ReloadRangeReverse(p) ==
  /\ alive /\ rpc[p] = "openhttp" /\ ri[p] \notin HTTPPorts
  /\ IF cfg = Nil
     THEN /\ rpc' = Set(rpc, p, "panic")
          /\ UNCHANGED <<rmap, rrem>>
     ELSE /\ rpc' = Set(rpc, p, "opensocks")
          /\ rmap' = Set(rmap, p, cfg.ReverseMap)
          /\ rrem' = Set(rrem, p, DOMAIN cfg.ReverseMap)
  /\ UNCHANGED <<lvars, cvars, callvars, hvars>>
  /\ UNCHANGED <<rsnap, ridx, rsrvs, ri, rcur, rres, cfg, running, file, wpc, alive, wt, wclock, evq, nextL, edits>>
  /\ UNCHANGED <<tun, evars>>

\* srv := proxy.NewSOCKS(connectTo, rl.cfg.Proxy); go srv.ListenAndServe(addr port,
\* listenErr)   (main.go:155-157); a map is ranged over in any order
ReloadOpenSOCKS(p, port) ==
  /\ alive /\ rpc[p] = "opensocks" /\ port \in rrem[p] /\ nextL <= MaxListeners
  /\ IF cfg = Nil
     THEN /\ rpc' = Set(rpc, p, "panic")
          /\ UNCHANGED <<lvars, rcur, nextL, rrem>>
     ELSE /\ NewListener(nextL, "socks", port, cfg.Proxy, rmap[p][port])
          /\ rcur' = Set(rcur, p, nextL)
          /\ nextL' = nextL + 1
          /\ rrem' = Set(rrem, p, rrem[p] \ {port})
          /\ rpc' = Set(rpc, p, "waitsocks")
  /\ UNCHANGED <<cvars, callvars, hvars>>
  /\ UNCHANGED <<rsnap, ridx, rsrvs, ri, rmap, rres, cfg, running, file, wpc, alive, wt, wclock, evq, edits>>
  /\ UNCHANGED <<tun, evars>>

\* A reload that appends its listeners to rl.running instead of replacing it.
ReloadPublishAppending(p) ==
  /\ alive /\ rpc[p] = "opensocks" /\ rrem[p] = {}
  /\ running' = running \o rsrvs[p]
  /\ rpc' = Set(rpc, p, "done")
  /\ rres' = Set(rres, p, "ok")
  /\ UNCHANGED <<lvars, cvars, callvars, hvars>>
  /\ UNCHANGED <<rsnap, ridx, rsrvs, ri, rmap, rrem, rcur, cfg, file, wpc, alive, wt, wclock, evq, nextL, edits>>
  /\ UNCHANGED <<tun, evars>>

\* rl.running = srvs; return nil   (main.go:164-169)
ReloadPublish(p) ==
  /\ alive /\ rpc[p] = "opensocks" /\ rrem[p] = {}
  /\ running' = rsrvs[p]
  /\ rpc' = Set(rpc, p, "done")
  /\ rres' = Set(rres, p, "ok")
  /\ UNCHANGED <<lvars, cvars, callvars, hvars>>
  /\ UNCHANGED <<rsnap, ridx, rsrvs, ri, rmap, rrem, rcur, cfg, file, wpc, alive, wt, wclock, evq, nextL, edits>>
  /\ UNCHANGED <<tun, evars>>

\* ------------------------------------------- the callers of relay.reload
\* main: the startup reload has returned; on an error log.Fatalln ends the
\* process, otherwise rl.watch() starts the watcher   (main.go:221-225, 174-186)
MainStarted ==
  /\ alive /\ rpc[Main] = "done"
  /\ rpc' = Set(rpc, Main, "idle")
  /\ IF rres[Main] = "ok"
     THEN /\ wpc' = "select"
          /\ UNCHANGED alive
     ELSE /\ alive' = FALSE
          /\ UNCHANGED wpc
  /\ UNCHANGED <<lvars, cvars, callvars, hvars>>
  /\ UNCHANGED <<rsnap, ridx, rsrvs, ri, rmap, rrem, rcur, rres, cfg, running, file, wt, wclock, evq, nextL, edits>>
  /\ UNCHANGED <<tun, evars>>

\* The configuration file is written, for at most the n-th time; the watcher,
\* once started, is notified.
FileEditUpTo(f, n) ==
  /\ alive /\ edits < n
  /\ file' = f
  /\ edits' = edits + 1
  /\ evq' = IF wpc = "off" THEN evq ELSE evq + 1
  /\ UNCHANGED <<lvars, cvars, callvars, hvars>>
  /\ UNCHANGED <<rpc, rsnap, ridx, rsrvs, ri, rmap, rrem, rcur, rres, cfg, running, wpc, alive, wt, wclock, nextL>>
  /\ UNCHANGED <<tun, evars>>

FileEdit(f) == FileEditUpTo(f, MaxEdits)

\* case ev := <-w.Event: t = time.After(time.Second)   (main.go:188-192)
WatchEvent ==
  /\ alive /\ wpc = "select" /\ evq > 0
  /\ evq' = evq - 1
  /\ wt' = "armed"
  /\ wclock' = [left |-> Second, since |-> 0]
  /\ UNCHANGED <<lvars, cvars, callvars, hvars>>
  /\ UNCHANGED <<rpc, rsnap, ridx, rsrvs, ri, rmap, rrem, rcur, rres, cfg, running, file, wpc, alive, nextL, edits>>
  /\ UNCHANGED <<tun, evars>>

\* case <-t: rl.reload()   (main.go:196-197)
WatchReload ==
  /\ alive /\ wpc = "select" /\ wt = "fired" /\ CanReload
  /\ wt' = "off"
  /\ wpc' = "reload"
  /\ UNCHANGED wclock
  /\ rpc' = Set(rpc, Watch, "load")
  /\ rbefore' = Set(rbefore, Watch, {l \in Listeners : lbound[l]})
  /\ UNCHANGED <<lvars, cvars, callvars, ncalls, nrets, zeroAtClose, nilread>>
  /\ UNCHANGED <<rsnap, ridx, rsrvs, ri, rmap, rrem, rcur, rres, cfg, running, file, alive, evq, nextL, edits>>
  /\ UNCHANGED <<tun, evars>>

\* that rl.reload() has returned; an error is logged   (main.go:197-199)
WatchReloaded ==
  /\ alive /\ wpc = "reload" /\ rpc[Watch] = "done"
  /\ wpc' = "select"
  /\ rpc' = Set(rpc, Watch, "idle")
  /\ UNCHANGED <<lvars, cvars, callvars, hvars>>
  /\ UNCHANGED <<rsnap, ridx, rsrvs, ri, rmap, rrem, rcur, rres, cfg, running, file, alive, wt, wclock, evq, nextL, edits>>
  /\ UNCHANGED <<tun, evars>>

\* serveReload calls rl.reload()   (part_002:107-108)
ServeReload(c) ==
  /\ alive /\ Handling(c, "reload") /\ rpc[c] = "idle"
  /\ creq' = Set(creq, c, "reloading")
  /\ rpc' = Set(rpc, c, "load")
  /\ rbefore' = Set(rbefore, c, {l \in Listeners : lbound[l]})
  /\ UNCHANGED <<lvars, cl, cst, cb, copen, cwho, callvars, ncalls, nrets, zeroAtClose, nilread>>
  /\ UNCHANGED <<rsnap, ridx, rsrvs, ri, rmap, rrem, rcur, rres, cfg, running, file, wpc, alive, wt, wclock, evq, nextL, edits>>
  /\ UNCHANGED <<tun, evars>>

\* rl.reload() has returned to serveReload: http.Error, or "Connection: close"
\* and the redirect to /   (part_002:108-113)
ServeReloaded(c) ==
  /\ alive /\ creq[c] = "reloading" /\ rpc[c] = "done"
  /\ creq' = Set(creq, c, IF rres[c] = "ok" THEN "finishclose" ELSE "finishing")
  /\ rpc' = Set(rpc, c, "idle")
  /\ UNCHANGED <<lvars, cl, cst, cb, copen, cwho, callvars, hvars>>
  /\ UNCHANGED <<rsnap, ridx, rsrvs, ri, rmap, rrem, rcur, rres, cfg, running, file, wpc, alive, wt, wclock, evq, nextL, edits>>
  /\ UNCHANGED <<tun, evars>>

\* A panic (a nil dereference) in a context: the server recovers the panic of a
\* handler and closes its connection; in any other goroutine the process crashes.
Panic(p) ==
  /\ alive /\ (rpc[p] = "panic" \/ callpc[p] = "panic")
  /\ rpc' = Set(rpc, p, "idle")
  /\ callpc' = Set(callpc, p, "none")
  /\ IF p \in Conns
     THEN /\ copen' = Set(copen, p, FALSE)
          /\ cwho' = Set(cwho, p, IF copen[p] THEN "server" ELSE cwho[p])
          /\ cst' = Set(cst, p, "closed")
          /\ cb' = Set(cb, p, "remove")
          /\ creq' = Set(creq, p, "none")
          /\ UNCHANGED alive
     ELSE /\ alive' = FALSE
          /\ UNCHANGED <<copen, cwho, cst, cb, creq>>
  /\ UNCHANGED <<lvars, cl, calltgt, hvars>>
  /\ UNCHANGED <<rsnap, ridx, rsrvs, ri, rmap, rrem, rcur, rres, cfg, running, file, wpc, wt, wclock, evq, nextL, edits>>
  /\ UNCHANGED <<tun, evars>>

\* ------------------------------------- a goroutine that only calls Close()
TestClose(l) ==
  /\ alive /\ callpc[Main] = "none" /\ lkind[l] # "none" /\ ncalls[l] < MaxCloseCalls
  /\ BeginClose(Main, l)
  /\ UNCHANGED <<lvars, cvars, rvars, nrets, zeroAtClose, nilread, rbefore>>

TestCloseReturned ==
  /\ alive /\ callpc[Main] = "ret" /\ rpc[Main] = "idle"
  /\ callpc' = Set(callpc, Main, "none")
  /\ UNCHANGED <<lvars, cvars, calltgt, rvars, hvars>>
  /\ UNCHANGED <<tun, evars>>

\* ------------------------------------------------------------------- time
\* The steps of the program itself: they take no time.
ListenerStep(l) ==
  \/ Listen(l) \/ HTTPInit(l) \/ SOCKSInit(l) \/ ServeReturn(l) \/ SOCKSServeReturn(l)
  \/ RunStop(l) \/ RunRecvDone(l) \/ RunTimeout(l) \/ RunKill(l) \/ TrackerKillAll(l)
  \/ EndedClose(l) \/ RunRecvEnded(l)
  \/ \E q \in Procs : RunSignalClose(l, q)
  \/ \E c \in Conns : TrackerAdd(l, c) \/ TrackerRemove(l, c)

CloseStep(p) ==
  \/ HTTPCloseListener(p) \/ HTTPCloseSignal(p) \/ SOCKSClose(p)
  \/ \E q \in Procs : HTTPCloseSignalStolen(p, q)

ReloadStep(p) ==
  \/ ReloadLoad(p) \/ ReloadCloseRange(p) \/ ReloadCloseCall(p) \/ ReloadCloseNext(p)
  \/ ReloadCloseDone(p) \/ ReloadOpenHTTP(p) \/ ReloadRecvErr(p) \/ ReloadRangeReverse(p)
  \/ ReloadPublish(p) \/ Panic(p)
  \/ \E port \in rrem[p] : ReloadOpenSOCKS(p, port)

HandlerStep(c) ==
  \/ Hijack(c) \/ ServePac(c) \/ ServeReload(c) \/ ServeReloaded(c)
  \/ \E keep \in BOOLEAN : ServerFinish(c, keep)

Internal ==
  \/ \E l \in Listeners : ListenerStep(l)
  \/ \E p \in Procs : CloseStep(p) \/ ReloadStep(p)
  \/ \E c \in Conns : HandlerStep(c)
  \/ MainStarted \/ WatchEvent \/ WatchReload \/ WatchReloaded \/ TestCloseReturned

\* The grace period of run (timeout, 1 second, http.go:92) has elapsed.
Tick(l) ==
  /\ alive /\ timer[l] = "armed" /\ ~ENABLED Internal
  /\ timer' = Set(timer, l, "fired")
  /\ UNCHANGED <<lkind, lport, lproxy, ldest, lbound, linit, lclosed, spc, tpc, conns, tdone, epc, ka>>
  /\ UNCHANGED <<cvars, callvars, rvars, hvars>>
  /\ UNCHANGED <<tun, evars>>

\* One time unit passes while the watcher's time.After(time.Second) runs; the
\* timer fires when none is left   (main.go:192)
WatchTick ==
  /\ alive /\ wt = "armed" /\ ~ENABLED Internal
  /\ wclock' = [left |-> wclock.left - 1,
                since |-> IF wclock.since < Second THEN wclock.since + 1 ELSE Second]
  /\ wt' = IF wclock.left = 1 THEN "fired" ELSE "armed"
  /\ UNCHANGED <<lvars, cvars, callvars, hvars>>
  /\ UNCHANGED <<rpc, rsnap, ridx, rsrvs, ri, rmap, rrem, rcur, rres, cfg, running, file, wpc, alive, evq, nextL, edits>>
  /\ UNCHANGED <<tun, evars>>

\* ------------------------------------------------------ the specifications
NoListeners ==
  /\ lkind = [l \in Listeners |-> "none"]
  /\ lport = [l \in Listeners |-> 0]
  /\ lproxy = [l \in Listeners |-> Nil]
  /\ ldest = [l \in Listeners |-> <<>>]
  /\ lbound = [l \in Listeners |-> FALSE]
  /\ linit = [l \in Listeners |-> FALSE]
  /\ lclosed = [l \in Listeners |-> FALSE]
  /\ spc = [l \in Listeners |-> "none"]
  /\ tpc = [l \in Listeners |-> "none"]
  /\ conns = [l \in Listeners |-> {}]
  /\ tdone = [l \in Listeners |-> FALSE]
  /\ epc = [l \in Listeners |-> "none"]
  /\ timer = [l \in Listeners |-> "off"]
  /\ ka = [l \in Listeners |-> TRUE]

NoConns ==
  /\ cl = [c \in Conns |-> 0]
  /\ cst = [c \in Conns |-> "free"]
  /\ cb = [c \in Conns |-> "none"]
  /\ copen = [c \in Conns |-> FALSE]
  /\ creq = [c \in Conns |-> "none"]
  /\ cwho = [c \in Conns |-> "none"]
  /\ tun = [c \in Conns |-> Tun0]
  /\ clate = [c \in Conns |-> FALSE]
  /\ tempDelay = [l \in Listeners |-> 0]
  /\ nerr = [l \in Listeners |-> 0]
  /\ hreq = NoRequest

NoCalls ==
  /\ callpc = [p \in Procs |-> "none"]
  /\ calltgt = [p \in Procs |-> 0]
  /\ rsnap = [p \in Procs |-> <<>>]
  /\ ridx = [p \in Procs |-> 0]
  /\ rsrvs = [p \in Procs |-> <<>>]
  /\ ri = [p \in Procs |-> 0]
  /\ rmap = [p \in Procs |-> EmptyMap]
  /\ rrem = [p \in Procs |-> {}]
  /\ rcur = [p \in Procs |-> 0]
  /\ rres = [p \in Procs |-> "none"]
  /\ ncalls = [l \in Listeners |-> 0]
  /\ nrets = [l \in Listeners |-> 0]
  /\ zeroAtClose = [l \in Listeners |-> FALSE]
  /\ nilread = FALSE
  /\ rbefore = [p \in Procs |-> {}]

\* main: rl := &relay{}; rl.reload() is about to run   (main.go:211-221)
Init ==
  /\ NoListeners /\ NoConns /\ NoCalls
  /\ rpc = [p \in Procs |-> IF p = Main THEN "load" ELSE "idle"]
  /\ cfg = Nil
  /\ running = <<>>
  /\ file \in FileIds
  /\ wpc = "off" /\ alive = TRUE /\ wt = "off" /\ evq = 0
  /\ wclock = [left |-> 0, since |-> 0]
  /\ nextL = 1 /\ edits = 0

Clients == 1..MaxClients
Next ==
  \/ \E l \in Listeners : ListenerStep(l)
  \/ \E p \in Procs : CloseStep(p) \/ ReloadStep(p)
  \/ \E c \in Conns : HandlerStep(c)
  \/ MainStarted \/ WatchEvent \/ WatchReload \/ WatchReloaded
  \/ \E l \in Listeners, c \in Clients : HTTPAccept(l, c)
  \/ \E c \in Conns, req \in {"reload", "pac", "connect"} : ReadRequest(c, req)
  \/ \E c \in Conns : TunnelEnd(c) \/ PeerClose(c)
  \/ \E f \in FileIds : FileEdit(f)
  \/ \E l \in Listeners : Tick(l)
  \/ WatchTick

Spec == Init /\ [][Next]_vars

\* One HTTP listener and one SOCKS listener, created with NewHTTP / NewSOCKS and
\* serving after ListenAndServe reported a successful bind; no local handler.
UpstreamA == [Name |-> "a", Host |-> "hostA"]
InitListener ==
  /\ lkind = [l \in Listeners |-> IF l = 1 THEN "http" ELSE IF l = 2 THEN "socks" ELSE "none"]
  /\ lport = [l \in Listeners |-> IF l \in {1, 2} THEN l ELSE 0]
  /\ lproxy = [l \in Listeners |-> IF l \in {1, 2} THEN UpstreamA ELSE Nil]
  /\ ldest = [l \in Listeners |-> IF l = 2 THEN <<"h">> ELSE <<>>]
  /\ lbound = [l \in Listeners |-> l \in {1, 2}]
  /\ linit = [l \in Listeners |-> l \in {1, 2}]
  /\ lclosed = [l \in Listeners |-> FALSE]
  /\ spc = [l \in Listeners |-> IF l = 1 THEN "serve" ELSE IF l = 2 THEN "accept" ELSE "none"]
  /\ tpc = [l \in Listeners |-> IF l = 1 THEN "select" ELSE "none"]
  /\ conns = [l \in Listeners |-> {}]
  /\ tdone = [l \in Listeners |-> FALSE]
  /\ epc = [l \in Listeners |-> IF l = 1 THEN "recv" ELSE "none"]
  /\ timer = [l \in Listeners |-> "off"]
  /\ ka = [l \in Listeners |-> TRUE]
  /\ NoConns /\ NoCalls
  /\ rpc = [p \in Procs |-> "idle"]
  /\ cfg = Nil
  /\ running = <<>>
  /\ file = 1
  /\ wpc = "off" /\ alive = TRUE /\ wt = "off" /\ evq = 0
  /\ wclock = [left |-> 0, since |-> 0]
  /\ nextL = 3 /\ edits = 0

NextListener ==
  \/ \E l \in Listeners :
       \/ ServeReturn(l) \/ SOCKSServeReturn(l)
       \/ RunStop(l) \/ RunRecvDone(l) \/ RunTimeout(l) \/ RunKill(l) \/ TrackerKillAll(l)
       \/ EndedClose(l) \/ RunRecvEnded(l)
       \/ \E q \in Procs : RunSignalClose(l, q)
       \/ \E c \in Conns : TrackerAdd(l, c) \/ TrackerRemove(l, c)
  \/ \E p \in Procs : HTTPCloseListener(p) \/ HTTPCloseSignal(p) \/ SOCKSClose(p)
  \/ \E c \in Conns : Hijack(c)
  \/ \E c \in Conns, keep \in BOOLEAN : ServerFinish(c, keep)
  \/ \E l \in Listeners, c \in Conns : HTTPAccept(l, c) \/ SOCKSAccept(l, c)
  \/ \E c \in Conns, req \in {"proxy", "connect"} : ReadRequest(c, req)
  \/ \E c \in Conns : ProxyResponse(c) \/ TunnelEnd(c) \/ PeerClose(c)
  \/ \E l \in Listeners : TestClose(l)
  \/ TestCloseReturned
  \/ \E l \in Listeners : Tick(l)

SpecListener == InitListener /\ [][NextListener]_vars

\* Connections of both kinds of listener, each carrying one tunnel from the
\* accept to the close of the local connection.
NextTunnel ==
  \/ \E l \in Listeners, c \in Conns : HTTPAccept(l, c) \/ SOCKSAccept(l, c) \/ TrackerAdd(l, c)
  \/ \E c \in Conns : ReadRequest(c, "connect")
  \/ \E c \in Conns : Hijack(c)
  \/ \E c \in Conns, outcome \in Outcomes : Dial(c, outcome)
  \/ \E c \in Conns, ok \in BOOLEAN : RelayDown(c, ok) \/ RelayUp(c, ok)
  \/ \E c \in Conns : TunPeerCloses(c) \/ TunDestCloses(c)
  \/ \E c \in Conns : TunnelStep(c)

SpecTunnel == InitListener /\ [][NextTunnel]_vars

\* The relay without clients: the startup reload, then the watcher and its
\* reloads, with the file edited up to MaxBurst times.
NextWatch ==
  \/ \E l \in Listeners :
       \/ Listen(l) \/ HTTPInit(l) \/ SOCKSInit(l) \/ ServeReturn(l) \/ SOCKSServeReturn(l)
       \/ RunStop(l) \/ RunRecvDone(l) \/ EndedClose(l) \/ RunRecvEnded(l)
       \/ \E q \in Procs : RunSignalClose(l, q)
  \/ \E p \in Procs : HTTPCloseListener(p) \/ HTTPCloseSignal(p) \/ SOCKSClose(p)
  \/ \E p \in Procs :
       \/ ReloadLoad(p) \/ ReloadCloseRange(p) \/ ReloadCloseCall(p) \/ ReloadCloseNext(p)
       \/ ReloadCloseDone(p) \/ ReloadOpenHTTP(p) \/ ReloadRecvErr(p) \/ ReloadRangeReverse(p)
       \/ ReloadPublish(p)
       \/ \E port \in rrem[p] : ReloadOpenSOCKS(p, port)
  \/ MainStarted \/ WatchEvent \/ WatchReload \/ WatchReloaded
  \/ \E f \in FileIds : FileEditUpTo(f, MaxBurst)
  \/ WatchTick

SpecWatch == Init /\ [][NextWatch]_vars

\* ================================================================= claims
\* The first Close() on an HTTP listener l is in progress.
FirstClosePending(l) == lkind[l] = "http" /\ ncalls[l] >= 1 /\ nrets[l] = 0
\* A Close() on l has returned.
CloseReturned(l) == nrets[l] >= 1
\* The grace period of l's drain has run out.
GraceOver(l) == timer[l] \in {"fired", "used"}

\* C1: on an HTTP listener with a tracked connection that never closes on its
\* own, Close() returns no later than the grace period under every interleaving
\* of the timer with the tracking goroutine (a Close() in progress is never left
\* with the program at rest and the grace period over), and when Close() has
\* returned every connection still tracked is closed.
C1_CloseReturnsAfterGraceWithConnsClosed ==
  \A l \in Listeners :
    /\ (FirstClosePending(l) /\ GraceOver(l)) => ENABLED Internal
    /\ (lkind[l] = "http" /\ CloseReturned(l)) => \A c \in conns[l] : ~copen[c]

\* C2: when all the in-flight connections of an HTTP listener (plain requests
\* or CONNECT tunnels) have closed before the grace period is over, Close()
\* returns without waiting for it: the program is never at rest, waiting for
\* the grace timer, with Close() in progress and every connection closed.
C2_CloseReturnsAfterLastConnection ==
  \A l \in Listeners :
    (FirstClosePending(l) /\ OpenConnsOf(l) = {} /\ ~GraceOver(l)) => ENABLED Internal

\* C3: Close() called while no connection of the listener is in flight returns
\* without waiting for the grace period, and once Close() has closed the
\* listener it accepts no further connection.
C3_CloseWithoutConnectionsIsPrompt ==
  \A l \in Listeners :
    /\ (lkind[l] = "http" /\ ncalls[l] >= 1 /\ zeroAtClose[l]) =>
         /\ ~GraceOver(l)
         /\ nrets[l] = 0 => ENABLED Internal
    /\ CloseReturned(l) => ~lbound[l]
    /\ \A p \in Procs : (callpc[p] \in {"send", "recv", "ret"} /\ calltgt[p] = l) => ~lbound[l]

C5_SecondCloseReturns ==
  \A p \in Procs :
    (callpc[p] \in {"lclose", "send", "recv", "panic"} /\ CloseReturned(calltgt[p])) =>
      /\ callpc[p] # "panic"
      /\ ENABLED Internal \/ \E l \in Listeners : timer[l] = "armed"

\* The steps of reload between rl.Close() and rl.running = srvs.
Opening(p) == rpc[p] \in {"openhttp", "waithttp", "opensocks", "waitsocks"}
\* The listeners of the generation that reload p replaces.
Previous(p) == {rsnap[p][i] : i \in DOMAIN rsnap[p]}
\* Reload p has had every bind of its new generation confirmed.
AllNewOpen(p) == rpc[p] = "opensocks" /\ rrem[p] = {}

C7_FailedReloadLeavesListenersRunning ==
  \A p \in Procs :
    (rpc[p] = "done" /\ rres[p] \in {"loaderr", "listenerr"}) => \A l \in rbefore[p] : lbound[l]

\* The files that config.New rejects: an unknown use_proxy key, a reverse entry
\* without "->", a reverse entry whose port is not a number, an unreadable file.
BadFiles == {3, 4, 5, 6}

\* C8: when config.New fails, reload returns that error in the same step,
\* having closed and opened no listener: the ports, the upstream and the
\* reverse destinations of every listener, and the listener set, are unchanged.
C8_LoadErrorTouchesNoListener ==
  [][\A p \in Procs : (rpc[p] = "load" /\ rpc'[p] # "load") =>
       /\ file \in BadFiles <=> ConfigNew(Files[file]).err # "none"
       /\ IF file \in BadFiles
          THEN /\ rpc'[p] = "done" /\ rres'[p] = "loaderr"
               /\ lvars' = lvars /\ running' = running /\ nextL' = nextL
               /\ ncalls' = ncalls /\ callvars' = callvars
          ELSE rpc'[p] = "rlclose"]_vars

\* A reload has failed to load its configuration while listeners were
\* accepting, and they still are.
C8_Witness ==
  \E p \in Procs : /\ rpc[p] = "done" /\ rres[p] = "loaderr" /\ rbefore[p] # {}
                   /\ \A l \in rbefore[p] : lbound[l] /\ ncalls[l] = 0

\* The listeners of rl.running are those of the configuration rl.cfg.
Paired ==
  /\ cfg # Nil
  /\ \A i \in DOMAIN running :
       LET l == running[i] IN
       /\ lproxy[l] = cfg.Proxy
       /\ lkind[l] = "socks" =>
            (lport[l] \in DOMAIN cfg.ReverseMap /\ ldest[l] = cfg.ReverseMap[lport[l]])
  /\ \A port \in DOMAIN cfg.ReverseMap :
       \E i \in DOMAIN running : lkind[running[i]] = "socks" /\ lport[running[i]] = port

\* C9: once the startup reload has succeeded, at every moment, during and after a failed
\* reload too, a handler reads a configuration that is not nil and is the one
\* of the published listener set; no handler has dereferenced a nil rl.cfg.
C9_ReadersSeePublishedGeneration ==
  wpc # "off" =>
    /\ ~nilread
    /\ \A c \in Conns : Handling(c, "pac") => Paired

\* C10: at most one execution of reload is in flight, over the startup call,
\* the watcher and the GET /reload handlers.
C10_OneReloadInFlight ==
  Cardinality({p \in Procs : rpc[p] \notin {"idle", "done", "panic"}}) <= 1

\* The program is at rest: none of its goroutines can take a step and none of
\* its timers runs.
AtRest ==
  /\ ~ENABLED Internal
  /\ wt # "armed"
  /\ \A l \in Listeners : timer[l] # "armed"

\* C11: each notification schedules a reload one second ahead and displaces the
\* one scheduled before (the timer that runs is the one of the last notification
\* received, and it fires no earlier than one second after it), and a burst does
\* cause its reload: the relay never comes to rest with a notification that the
\* watcher has not taken up.
C11_BurstCausesOneReload ==
  /\ wt = "armed" => wclock.left + wclock.since = Second
  /\ wt = "fired" => wclock.since = Second
  /\ (alive /\ wpc # "off" /\ AtRest) => evq = 0

\* C12: when the reload that GET /reload triggered has succeeded, the handler
\* writes the redirect to / on the connection of the request, which is open: the
\* client receives it.
C12_ReloadRedirectReachesClient ==
  \A c \in Conns : creq[c] = "finishclose" => copen[c]

\* What the listeners of a set serve: kind, port, upstream and destination.
Serving(ls) ==
  {[kind |-> lkind[l], port |-> lport[l], proxy |-> lproxy[l], dest |-> ldest[l]] : l \in ls}
\* What a configuration asks for: an HTTP proxy on every port of the range and
\* a reverse listener for every entry of its ReverseMap.
Wanted(cf) ==
  {[kind |-> "http", port |-> i, proxy |-> cf.Proxy, dest |-> <<>>] : i \in HTTPPorts}
  \cup {[kind |-> "socks", port |-> q, proxy |-> cf.Proxy, dest |-> cf.ReverseMap[q]] :
          q \in DOMAIN cf.ReverseMap}
Running == {running[i] : i \in DOMAIN running}

\* C13: when reloads run one after another, a reload that has succeeded leaves
\* running exactly the listeners its configuration asks for, all of them bound,
\* and no listener of the generation it replaced still bound; so a second
\* reload with the configuration of the first leaves an equivalent set.
C13_ReloadTwiceSameListeners ==
  \A p \in Procs : (rpc[p] = "done" /\ rres[p] = "ok") =>
    /\ Serving(Running) = Wanted(cfg)
    /\ Cardinality(Running) = Cardinality(Wanted(cfg))
    /\ \A l \in Running : lbound[l]
    /\ \A l \in Previous(p) : ~lbound[l] /\ l \notin Running
    /\ Serving(Previous(p)) = Wanted(cfg) => Serving(Running) = Serving(Previous(p))

\* A second reload with the configuration of the first has succeeded.
C13_Witness ==
  \E p \in Procs : /\ rpc[p] = "done" /\ rres[p] = "ok" /\ Previous(p) # {}
                   /\ Serving(Previous(p)) = Wanted(cfg)
                   /\ Serving(Running) = Serving(Previous(p))

\* C14: a connectSOCKS call that returns because the dialer could not be built
\* or the dial failed returns connected = false with that error, has no
\* upstream connection and has written nothing to the local connection; and a
\* call that returns without an upstream connection returns such an error.
C14_FailedDialWritesNothing ==
  \A c \in Conns : tun[c].pc = "ret" =>
    /\ tun[c].err \in {"nodialer", "nodial"} =>
         ~tun[c].connected /\ tun[c].conn = "none" /\ tun[c].out = <<>>
    /\ tun[c].conn = "none" => tun[c].err \in {"nodialer", "nodial"}

\* A CONNECT tunnel (its intro is not empty) has returned from a failed dial.
C14_Witness ==
  \E c \in Conns : /\ tun[c].pc = "ret" /\ tun[c].err = "nodial"
                   /\ Intro(c) # <<>> /\ tun[c].out = <<>> /\ ~tun[c].connected

\* C15: on a connection whose intro is not empty, whatever has been written
\* starts with the intro, the intro occurs once, it is written only when the
\* upstream connection exists, and the copies run only after it: no relayed
\* chunk precedes it. Where the intro is nil, only relayed chunks are written.
C15_IntroOnceBeforeRelayedBytes ==
  \A c \in Conns : tun[c].pc \in {"dial", "intro", "start", "wait", "ret"} =>
    IF Intro(c) # <<>>
    THEN /\ tun[c].out # <<>> => tun[c].out[1] = Intro(c)[1] /\ tun[c].conn = "open"
         /\ \A i \in DOMAIN tun[c].out : tun[c].out[i] = Intro(c)[1] => i = 1
         /\ (tun[c].up # "idle" \/ tun[c].down # "idle") => tun[c].out # <<>>
    ELSE \A i \in DOMAIN tun[c].out : tun[c].out[i] = "data"

\* A CONNECT tunnel has relayed a chunk after its intro.
C15_Witness ==
  \E c \in Conns : Len(tun[c].out) = 2 /\ Intro(c) # <<>> /\ tun[c].out = Intro(c) \o <<"data">>

\* C16: a connectSOCKS call that has returned reports connected = true exactly
\* when its dial succeeded (it has an upstream connection).
C16_ConnectedIffDialSucceeded ==
  \A c \in Conns : tun[c].pc \in {"ret", "done"} =>
    (tun[c].connected <=> tun[c].conn = "open")

\* C17: when the handler of a CONNECT request is done, a failed dial has left
\* no intro but an error response on the connection, and a failure after the
\* intro has left no error response.
C17_DialErrorAnsweredToPeer ==
  \A c \in Conns : (tun[c].pc = "done" /\ lkind[cl[c]] = "http") =>
    /\ tun[c].err \in {"nodialer", "nodial"} =>
         /\ \A i \in DOMAIN tun[c].out : tun[c].out[i] # "200 OK"
         /\ \E i \in DOMAIN tun[c].out : tun[c].out[i] = "500"
    /\ (tun[c].out # <<>> /\ tun[c].out[1] = "200 OK") =>
         \A i \in DOMAIN tun[c].out : tun[c].out[i] # "500"

\* C18: a listener whose bind outcome has not been received has accepted no
\* connection and serves nothing; a reload that waits for an outcome waits for
\* the listener it started last, every listener it has kept or published has
\* delivered its outcome, no more listeners await delivery than reloads are
\* waiting; and a reload that received a bind error has returned it without
\* keeping or publishing that listener.
C18_BindOutcomeBeforeAccept ==
  /\ \A l \in Listeners : spc[l] \in {"listen", "senderr"} =>
       ConnsOf(l) = {} /\ ~linit[l] /\ conns[l] = {}
  /\ \A p \in Procs : rpc[p] \in {"waithttp", "waitsocks"} =>
       spc[rcur[p]] \in {"listen", "senderr"}
  /\ \A p \in Procs : \A i \in DOMAIN rsrvs[p] :
       spc[rsrvs[p][i]] \notin {"none", "listen", "senderr"}
  /\ \A l \in Running : spc[l] \notin {"none", "listen", "senderr"}
  /\ Cardinality({l \in Listeners : spc[l] \in {"listen", "senderr"}})
       <= Cardinality({p \in Procs : rpc[p] \in {"waithttp", "waitsocks"}})
  /\ \A p \in Procs : (rpc[p] = "done" /\ rres[p] = "listenerr") =>
       /\ spc[rcur[p]] = "ret" /\ ~lbound[rcur[p]] /\ ConnsOf(rcur[p]) = {}
       /\ rcur[p] \notin Running
       /\ \A i \in DOMAIN rsrvs[p] : rsrvs[p][i] # rcur[p]

\* A reload has returned the bind error of a listener.
C18_Witness ==
  \E p \in Procs : rpc[p] = "done" /\ rres[p] = "listenerr" /\ spc[rcur[p]] = "ret"

\* C19: once either end of an established tunnel has closed its side, the
\* tunnel has a step to take towards its end whatever the other end does.
C19_TunnelEndsWhenOneSideCloses ==
  \A c \in Conns :
    (tun[c].pc = "wait" /\ (tun[c].peer = "closed" \/ tun[c].dest = "closed")) =>
      ENABLED TunnelStep(c)

\* C20: the two copies start together; a connected call has its result only
\* when both have ended, and the result is the one computed from both; and a
\* step that ends one copy changes nothing of the other copy, of the local
\* connection or of the upstream connection.
C20_ResultAfterBothCopies ==
  /\ [](\A c \in Conns :
          /\ tun[c].up = "idle" <=> tun[c].down = "idle"
          /\ (tun[c].pc \in {"ret", "done"} /\ tun[c].connected) =>
               /\ tun[c].up \in {"eof", "err"} /\ tun[c].down \in {"eof", "err"}
               /\ tun[c].err = CopyErr(tun[c].down, tun[c].up))
  /\ [][\A c \in Conns :
          /\ (tun[c].up = "run" /\ tun'[c].up # "run") =>
               /\ tun'[c].down = tun[c].down /\ tun'[c].conn = tun[c].conn
               /\ copen'[c] = copen[c] /\ tun'[c].pc = "wait"
          /\ (tun[c].down = "run" /\ tun'[c].down # "run") =>
               /\ tun'[c].up = tun[c].up /\ tun'[c].conn = tun[c].conn
               /\ copen'[c] = copen[c] /\ tun'[c].pc = "wait"]_vars

\* A call has returned after one copy ended at the end of the stream and the
\* other with an error.
C20_Witness ==
  \E c \in Conns : /\ tun[c].pc = "ret" /\ tun[c].connected
                   /\ tun[c].down = "eof" /\ tun[c].up = "err" /\ tun[c].err = "e2"

\* C21: once the handler of a tunnel is done, whatever the relay returned, the
\* local connection is closed, the upstream connection dialled for the tunnel
\* is no longer open, and the call is not started again.
C21_TunnelConnectionsClosedAtEnd ==
  \A c \in Conns : tun[c].pc = "done" =>
    /\ ~copen[c]
    /\ tun[c].conn # "open"
    /\ creq[c] # "tunnel"

\* C22: while the tracking goroutine of a listener runs, every connection in
\* its set belongs to that listener and is open and being served (a request in
\* progress, or a tunnel that has not ended), unless its removal is already
\* waiting to be received.
C22_TrackedConnectionsAreInService ==
  \A l \in Listeners : tpc[l] = "select" =>
    \A c \in conns[l] :
      /\ cl[c] = l
      /\ \/ cb[c] = "remove"
         \/ /\ copen[c]
            /\ \/ cst[c] = "active"
               \/ cst[c] = "hijacked" /\ creq[c] = "tunnel"

\* C23: a request read from a connection after a Close() of its listener has
\* begun is not being forwarded to the upstream, and its connection is not
\* kept for a further request once it is answered.
C23_NoProxyingWhileDraining ==
  \A c \in Conns : clate[c] => ~Handling(c, "proxy") /\ cst[c] # "idle"

\* ------------------------------- the handler of serveHTTP (http.go:76-91)
Methods == {"CONNECT", "GET", "POST"}
Hosts == {"proxy", "proxy:80", "example.com:443"}
Addrs == {"10.0.0.1:4001", "10.0.0.2:4002"}

\* A handler that looks for the local handler before it looks at the method.
RouteLocalFirst(method, isAbs, host, hasHandler) ==
  IF (~isAbs \/ host = "proxy") /\ hasHandler THEN "local"
  ELSE IF method = "CONNECT" THEN "connect"
  ELSE "forward"

\* Which of its three branches the handler takes   (http.go:77-90)
Route(method, isAbs, host, hasHandler) ==
  IF method = "CONNECT" THEN "connect"
  ELSE IF (~isAbs \/ host = "proxy") /\ hasHandler THEN "local"
  ELSE "forward"

\* Director: r.Header.Add("X-Real-IP", r.RemoteAddr)   (http.go:71-73); Add
\* appends to the values the request already carries.
Director(values, remoteAddr) == Append(values, remoteAddr)

\* A request reaches the handler of a listener: its method, whether its URL is
\* absolute, the host of its URL, the X-Real-IP values it carries, the address
\* of its client, and whether srv.Handler is set.
RequestArrives(method, isAbs, host, xrip, remoteAddr, hasHandler) ==
  /\ hreq = NoRequest
  /\ hreq' = [at |-> "in", method |-> method, isAbs |-> isAbs, host |-> host, xrip |-> xrip,
              remoteAddr |-> remoteAddr, hasHandler |-> hasHandler]
  /\ UNCHANGED <<lvars, cvars, callvars, rvars, hvars, tun, clate, tempDelay, nerr>>

\* The handler runs: serveHTTPConnect with r.URL.Host, srv.Handler.ServeHTTP, or
\* rp.ServeHTTP whose Director adds the header   (http.go:76-91, 190)
HandlerServe ==
  /\ hreq.at = "in"
  /\ LET to == Route(hreq.method, hreq.isAbs, hreq.host, hreq.hasHandler) IN
     hreq' = [at |-> "out", req |-> hreq, route |-> to,
              target |-> IF to = "connect" THEN hreq.host ELSE "",
              xrip |-> IF to = "forward" THEN Director(hreq.xrip, hreq.remoteAddr) ELSE hreq.xrip]
  /\ UNCHANGED <<lvars, cvars, callvars, rvars, hvars, tun, clate, tempDelay, nerr>>

NextRoute ==
  \/ \E method \in Methods, isAbs \in BOOLEAN, host \in Hosts, xrip \in {<<>>, <<"192.0.2.9">>},
        remoteAddr \in Addrs, hasHandler \in BOOLEAN :
       RequestArrives(method, isAbs, host, xrip, remoteAddr, hasHandler)
  \/ HandlerServe

SpecRoute == InitListener /\ [][NextRoute]_vars

\* C24: a request that has been through the handler took exactly one branch:
\* the tunnel to its own host:port when its method is CONNECT, whatever the
\* host; else the local handler when one is registered and the URL is not
\* absolute or its host is proxy; else the upstream, with the client address
\* as the last X-Real-IP value. Only a forwarded request gets the header.
C24_RequestRouting ==
  hreq.at = "out" =>
    LET r == hreq.req
        management == ~r.isAbs \/ r.host = "proxy"
    IN /\ hreq.route \in {"connect", "local", "forward"}
       /\ r.method = "CONNECT" => hreq.route = "connect" /\ hreq.target = r.host
       /\ (r.method # "CONNECT" /\ management /\ r.hasHandler) => hreq.route = "local"
       /\ (r.method # "CONNECT" /\ ~(management /\ r.hasHandler)) =>
            /\ hreq.route = "forward"
            /\ hreq.xrip # <<>> /\ hreq.xrip[Len(hreq.xrip)] = r.remoteAddr
       /\ hreq.route # "forward" => hreq.xrip = r.xrip

\* A CONNECT to the host proxy went to the tunnel although a local handler is
\* registered.
C24_Witness ==
  /\ hreq.at = "out" /\ hreq.req.method = "CONNECT" /\ hreq.req.host = "proxy"
  /\ hreq.req.hasHandler /\ hreq.route = "connect"

\* --------------------------------- the accept loop alone (socks.go:56-86)
\* A reverse listener whose Accept succeeds, fails for a while or fails for
\* good, next to an HTTP listener that goes on accepting.
NextAccept ==
  \/ \E l \in Listeners, c \in Conns : SOCKSAccept(l, c) \/ HTTPAccept(l, c)
  \/ \E l \in Listeners : SOCKSAcceptTemporary(l) \/ SOCKSSleepDone(l) \/ SOCKSAcceptFails(l)
  \/ \E l \in Listeners : SOCKSServeReturn(l)
  \/ \E l \in Listeners : lkind[l] = "socks" /\ TestClose(l)
  \/ \E p \in Procs : SOCKSClose(p)
  \/ TestCloseReturned
  \/ \E c \in Conns : TunnelEnd(c)

SpecAccept == InitListener /\ [][NextAccept]_vars

RECURSIVE Pow2(_)
Pow2(k) == IF k = 0 THEN 1 ELSE 2 * Pow2(k - 1)

\* C25: in the accept loop of a reverse listener tempDelay is 0 after a
\* successful accept and min(5ms * 2^(k-1), 1s) after the k-th temporary error
\* in a row; a temporary error leads to the sleep and from there back to
\* Accept, never out of the loop; and the step that ends the loop changes no
\* other listener and no connection.
C25_AcceptBackoff ==
  /\ [](\A l \in Listeners :
          /\ tempDelay[l] = IF nerr[l] = 0 THEN 0
                            ELSE IF FirstDelay * Pow2(nerr[l] - 1) < MaxDelay
                                 THEN FirstDelay * Pow2(nerr[l] - 1) ELSE MaxDelay
          /\ spc[l] = "sleep" => nerr[l] >= 1)
  /\ [][\A l \in Listeners :
          /\ nerr'[l] > nerr[l] => spc'[l] = "sleep" /\ lbound'[l] = lbound[l]
          /\ spc[l] = "sleep" => spc'[l] \in {"sleep", "accept"}
          /\ (lkind[l] = "socks" /\ spc[l] = "accept" /\ spc'[l] = "ret") =>
               /\ \A m \in Listeners \ {l} : spc'[m] = spc[m] /\ lbound'[m] = lbound[m]
               /\ copen' = copen /\ cst' = cst]_vars

\* The ninth temporary error in a row: the first whose delay is the limit.
C25_Witness ==
  \E l \in Listeners : nerr[l] = 9 /\ spc[l] = "sleep" /\ tempDelay[l] = MaxDelay

\* ------------------- listeners that have just reported their bind on errch
\* One HTTP listener and one SOCKS listener whose ListenAndServe has sent nil on
\* errch (http.go:49, socks.go:43) and has not yet entered serveHTTP /
\* serveSOCKS: srv.listener and srv.sig are still unassigned.
InitBound ==
  /\ lkind = [l \in Listeners |-> IF l = 1 THEN "http" ELSE IF l = 2 THEN "socks" ELSE "none"]
  /\ lport = [l \in Listeners |-> IF l \in {1, 2} THEN l ELSE 0]
  /\ lproxy = [l \in Listeners |-> IF l \in {1, 2} THEN UpstreamA ELSE Nil]
  /\ ldest = [l \in Listeners |-> IF l = 2 THEN <<"h">> ELSE <<>>]
  /\ lbound = [l \in Listeners |-> l \in {1, 2}]
  /\ linit = [l \in Listeners |-> FALSE]
  /\ lclosed = [l \in Listeners |-> FALSE]
  /\ spc = [l \in Listeners |-> IF l \in {1, 2} THEN "init" ELSE "none"]
  /\ tpc = [l \in Listeners |-> "none"]
  /\ conns = [l \in Listeners |-> {}]
  /\ tdone = [l \in Listeners |-> FALSE]
  /\ epc = [l \in Listeners |-> "none"]
  /\ timer = [l \in Listeners |-> "off"]
  /\ ka = [l \in Listeners |-> TRUE]
  /\ NoConns /\ NoCalls
  /\ rpc = [p \in Procs |-> "idle"]
  /\ cfg = Nil
  /\ running = <<>>
  /\ file = 1
  /\ wpc = "off" /\ alive = TRUE /\ wt = "off" /\ evq = 0
  /\ wclock = [left |-> 0, since |-> 0]
  /\ nextL = 3 /\ edits = 0

NextBound ==
  \/ \E l \in Listeners : HTTPInit(l) \/ SOCKSInit(l)
  \/ NextListener

SpecBound == InitBound /\ [][NextBound]_vars

\* C26: a Close() call is made only on a listener whose ListenAndServe has
\* delivered a successful bind, and whenever one is about to use srv.listener
\* (and srv.sig) the serving goroutine has assigned them: no Close() panics on
\* a nil listener.
C26_CloseFindsListenerInitialised ==
  \A p \in Procs :
    /\ callpc[p] # "panic"
    /\ callpc[p] = "lclose" => linit[calltgt[p]]

\* C27: once the relay has started, when no reload is in progress every bound
\* listener is one of rl.running; when the program is at rest no reload and no Close() call is
\* left unfinished; and a reload returns a bind error only for a
\* configuration that asks for one port twice.
C27_FailedReloadIsRecoverable ==
  /\ (alive /\ wpc # "off" /\ \A p \in Procs : rpc[p] \in {"idle", "done"}) =>
       \A l \in Listeners : lbound[l] => l \in Running
  /\ (alive /\ AtRest) =>
       \A p \in Procs : rpc[p] \in {"idle", "done"} /\ callpc[p] \in {"none", "ret"}
  /\ \A p \in Procs : (rpc[p] = "done" /\ rres[p] = "listenerr") =>
       \E q \in DOMAIN cfg.ReverseMap : q \in HTTPPorts

====
